---- MODULE Spec2Model ----
(***************************************************************************)
(* Waste-heat-reuse calculator: the derivation pipeline of Page()          *)
(* (src/unnamed/part_002, lines 656-3718) as a state machine.              *)
(*                                                                         *)
(* State: the useState hooks that feed the pipeline (inp) and the caches   *)
(* of the useMemo hooks (memo).  One definition per input handler; a step *)
(* is one handler followed by the re-render it causes, i.e. the useMemo    *)
(* chain re-evaluated in source order.                                     *)
(*                                                                         *)
(* Numbers.  A JavaScript number is modelled as <<n, d, e>>, the exact     *)
(* value n/d * 10^e, in the normal form gcd(n,d) = 1, d > 0, 5 divides     *)
(* neither n nor d.  d = 0 encodes the IEEE specials: <<1,0,0>> is         *)
(* +Infinity, <<-1,0,0>> is -Infinity, <<0,0,0>> is NaN.  null is <<>>.    *)
(* Arithmetic is exact: binary rounding and the sign of zero are not       *)
(* modelled.                                                               *)
(***************************************************************************)
EXTENDS Integers, Sequences, FiniteSets, TLC

\* ------------------------------------------------------------------------
\* JavaScript numbers
\* ------------------------------------------------------------------------
Null == <<>>
NaN == <<0, 0, 0>>
PosInf == <<1, 0, 0>>
NegInf == <<-1, 0, 0>>
Zero == <<0, 1, 0>>

AbsI(i) == IF i < 0 THEN -i ELSE i
SgnI(i) == IF i < 0 THEN -1 ELSE IF i > 0 THEN 1 ELSE 0
MinI(a, b) == IF a < b THEN a ELSE b

\* The integer helpers are functions, so that every argument is a value
\* when the body runs; the number operators bind their operands the same
\* way, through a one-element set.
GCD[a \in Nat, b \in Nat] == IF b = 0 THEN a ELSE GCD[b, a % b]

Pow10[k \in Nat] == IF k = 0 THEN 1 ELSE 10 * Pow10[k - 1]

\* s * n/d * 10^e for positive n, d with every factor 5 of n and d moved
\* into the decimal exponent
Strip5[s \in Int, n \in Nat, d \in Nat, e \in Int] ==
  IF n % 10 = 0 THEN Strip5[s, n \div 10, d, e + 1]
  ELSE IF n % 5 = 0 THEN Strip5[s, n \div 5, 2 * d, e + 1]
  ELSE IF d % 10 = 0 THEN Strip5[s, n, d \div 10, e - 1]
  ELSE IF d % 5 = 0 THEN Strip5[s, 2 * n, d \div 5, e - 1]
  ELSE <<s * n, d, e>>

\* normal form of n/d * 10^e, any integers n, d
Norm[n \in Int, d \in Int, e \in Int] ==
  IF d = 0 THEN <<SgnI(n), 0, 0>>
  ELSE IF n = 0 THEN Zero
  ELSE LET g == GCD[AbsI(n), AbsI(d)]
       IN  Strip5[SgnI(n) * SgnI(d), AbsI(n) \div g, AbsI(d) \div g, e]

Num(i) == Norm[i, 1, 0]
\* the decimal literal m * 10^-k, e.g. 3.3 is Dec(33, 1)
Dec(m, k) == Norm[m, 1, -k]

IsNum(x) == Len(x) = 3
IsNaN(x) == x = NaN
IsInf(x) == x = PosInf \/ x = NegInf
IsFinite(x) == \E v \in {x} : Len(v) = 3 /\ v[2] # 0
Sign(x) == SgnI(x[1])

Neg(x) == CHOOSE r \in {<<-v[1], v[2], v[3]>> : v \in {x}} : TRUE

\* lowest terms of the product of two finite non-zero numbers
MulReduced[a \in Seq(Int), b \in Seq(Int), g1 \in Nat, g2 \in Nat] ==
  Norm[(a[1] \div g1) * (b[1] \div g2),
       (a[2] \div g2) * (b[2] \div g1), a[3] + b[3]]

Mul(x, y) ==
  CHOOSE r \in
    { IF a[2] = 0 \/ b[2] = 0 THEN <<SgnI(a[1]) * SgnI(b[1]), 0, 0>>
      ELSE IF a[1] = 0 \/ b[1] = 0 THEN Zero
      ELSE MulReduced[a, b, GCD[AbsI(a[1]), b[2]], GCD[AbsI(b[1]), a[2]]]
      : a \in {x}, b \in {y} } : TRUE

Recip(y) ==
  CHOOSE r \in
    { IF x[2] = 0 THEN (IF x[1] = 0 THEN NaN ELSE Zero)
      ELSE IF x[1] = 0 THEN PosInf
      ELSE <<SgnI(x[1]) * x[2], AbsI(x[1]), -x[3]>>
      : x \in {y} } : TRUE

Div(x, y) ==
  CHOOSE r \in
    { IF a[2] # 0 /\ b[2] # 0 /\ b[1] = 0
      THEN <<SgnI(a[1]), 0, 0>>
      ELSE Mul(a, Recip(b))
      : a \in {x}, b \in {y} } : TRUE

\* the sum of two finite numbers brought to the exponent e and to the
\* denominator a[2] * b[2] / g
AddAligned[a \in Seq(Int), b \in Seq(Int), e \in Int, g \in Nat] ==
  Norm[a[1] * Pow10[a[3] - e] * (b[2] \div g)
         + b[1] * Pow10[b[3] - e] * (a[2] \div g),
       (a[2] \div g) * b[2], e]

Add(x, y) ==
  CHOOSE r \in
    { IF a = NaN \/ b = NaN THEN NaN
      ELSE IF a[2] = 0 THEN (IF b[2] = 0 /\ b[1] # a[1] THEN NaN ELSE a)
      ELSE IF b[2] = 0 THEN b
      ELSE AddAligned[a, b, MinI(a[3], b[3]), GCD[a[2], b[2]]]
      : a \in {x}, b \in {y} } : TRUE

Sub(a, b) == Add(a, Neg(b))

\* p1/q1 < p2/q2 for naturals p and positive q, by continued fractions
\* (no cross product, so no overflow)
FracLess[p1 \in Nat, q1 \in Nat, p2 \in Nat, q2 \in Nat] ==
  IF p1 \div q1 # p2 \div q2 THEN p1 \div q1 < p2 \div q2
  ELSE IF p2 % q2 = 0 THEN FALSE
  ELSE IF p1 % q1 = 0 THEN TRUE
  ELSE FracLess[q2, p2 % q2, q1, p1 % q1]

\* a < b for positive finite a, b
PosLess[a \in Seq(Int), b \in Seq(Int)] ==
  IF a[3] >= b[3]
  THEN FracLess[a[1], a[2], b[1], b[2] * Pow10[a[3] - b[3]]]
  ELSE FracLess[a[1], a[2] * Pow10[b[3] - a[3]], b[1], b[2]]

\* the JavaScript comparison a < b (false when either side is NaN)
Less(x, y) ==
  \E a \in {x}, b \in {y} :
    IF a = NaN \/ b = NaN THEN FALSE
    ELSE IF a = b THEN FALSE
    ELSE IF a[2] = 0 THEN a[1] < 0
    ELSE IF b[2] = 0 THEN b[1] > 0
    ELSE IF SgnI(a[1]) # SgnI(b[1]) THEN SgnI(a[1]) < SgnI(b[1])
    ELSE IF a[1] > 0 THEN PosLess[a, b]
    ELSE IF a[1] < 0 THEN PosLess[Neg(b), Neg(a)]
    ELSE FALSE

Leq(x, y) ==
  \E a \in {x}, b \in {y} :
    IF a = NaN \/ b = NaN THEN FALSE ELSE a = b \/ Less(a, b)
Greater(a, b) == Less(b, a)
Geq(a, b) == Leq(b, a)

MathMax(x, y) ==
  CHOOSE r \in
    { IF a = NaN \/ b = NaN THEN NaN ELSE IF Less(a, b) THEN b ELSE a
      : a \in {x}, b \in {y} } : TRUE
MathMin(x, y) ==
  CHOOSE r \in
    { IF a = NaN \/ b = NaN THEN NaN ELSE IF Less(b, a) THEN b ELSE a
      : a \in {x}, b \in {y} } : TRUE
MathAbs(x) == CHOOSE r \in {<<AbsI(a[1]), a[2], a[3]>> : a \in {x}} : TRUE

\* JavaScript truthiness of a number-or-null
Truthy(x) == \E v \in {x} : Len(v) = 3 /\ v # NaN /\ v # Zero

\* the magnitude n/d in tenths, rounded half up
Tenths[n \in Nat, d \in Nat] == (n \div d) + (IF 2 * (n % d) >= d THEN 1 ELSE 0)

\* Number.prototype.toFixed(1) as used by the payback rows: the text kind
\* and, for a finite number, its sign and its magnitude in tenths
toFixed1(y) ==
  CHOOSE r \in
    { IF x = NaN THEN [text |-> "NaN", neg |-> FALSE, tenths |-> 0]
      ELSE IF x[2] = 0 THEN [text |-> "Infinity", neg |-> x[1] < 0, tenths |-> 0]
      ELSE [text |-> "digits", neg |-> x[1] < 0,
            tenths |-> IF x[3] + 1 >= 0
                       THEN Tenths[AbsI(x[1]) * Pow10[x[3] + 1], x[2]]
                       ELSE Tenths[AbsI(x[1]), x[2] * Pow10[-(x[3] + 1)]]]
      : x \in {y} } : TRUE

\* ------------------------------------------------------------------------
\* Constants and reference tables
\* ------------------------------------------------------------------------
Offtake == {"hotWater", "districtHeat", "waterTreatmentFO", "atmosphericWater",
            "greenhouses", "foodBrewery", "dac"}

MWH_PER_MW_YEAR == 8760
L_PER_M3 == 1000
GAL_TO_M3 == Dec(378541, 8)
DAC_TCO2_PER_MW_YEAR == 4550
DAC_WATER_M3_PER_MW_YEAR == 160
DAC_RELEASE_TEMP_C == 65
TREVI_L_PER_MW_YEAR_RANGE == [min |-> Num(255000000), max |-> Num(365000000)]
TREVI_M3_PER_MW_YEAR_MID ==
  Div(Div(Add(TREVI_L_PER_MW_YEAR_RANGE.min, TREVI_L_PER_MW_YEAR_RANGE.max),
          Num(2)), Num(L_PER_M3))
URAVU_L_PER_MW_YEAR_RANGE == [min |-> Num(2000000), max |-> Num(15000000)]
URAVU_M3_PER_MW_YEAR_MID ==
  Div(Div(Add(URAVU_L_PER_MW_YEAR_RANGE.min, URAVU_L_PER_MW_YEAR_RANGE.max),
          Num(2)), Num(L_PER_M3))
GREENHOUSE_MWH_PER_HA_YEAR_DEFAULT == 4500
DEFAULT_MWH_PER_HOME_YEAR == Dec(145, 1)

DAC_CO2_KT_RANGE == [min |-> Num(4), max |-> Num(5)]
FO_CO2_KT_RANGE == [min |-> Dec(5, 1), max |-> Dec(15, 1)]
FNB_CO2_KT_RANGE == [min |-> Dec(3, 1), max |-> Dec(8, 1)]
AWH_CO2_KT_RANGE == [min |-> Dec(1, 1), max |-> Dec(3, 1)]
GREENHOUSE_CO2_KT_PER_MWYR_RANGE == [min |-> Dec(2, 1), max |-> Dec(6, 1)]
DISTRICT_HEAT_CO2_KT_RANGE == [min |-> Dec(1, 1), max |-> Dec(5, 1)]

DEFAULT_DC_CITY == "Frankfurt"
DC_LOCATIONS ==
  [Seattle |-> [electricityCostPerMWh |-> Dec(999, 1), gridEfKgPerKwh |-> Dec(367, 3)],
   Chicago |-> [electricityCostPerMWh |-> Dec(1181, 1), gridEfKgPerKwh |-> Dec(367, 3)],
   Phoenix |-> [electricityCostPerMWh |-> Dec(1223, 1), gridEfKgPerKwh |-> Dec(367, 3)],
   Atlanta |-> [electricityCostPerMWh |-> Dec(1087, 1), gridEfKgPerKwh |-> Dec(367, 3)],
   Frankfurt |-> [electricityCostPerMWh |-> Num(284), gridEfKgPerKwh |-> Dec(332, 3)],
   Newport |-> [electricityCostPerMWh |-> Num(442), gridEfKgPerKwh |-> Dec(217, 3)],
   AgriportA7 |-> [electricityCostPerMWh |-> Num(221), gridEfKgPerKwh |-> Dec(253, 3)],
   Zaragoza |-> [electricityCostPerMWh |-> Num(138), gridEfKgPerKwh |-> Dec(153, 3)]]

OFFTAKE_PLANT_COSTS ==
  [waterTreatmentFO |-> [capexM |-> Dec(306, 2), opexPerYear |-> Num(256477)],
   atmosphericWater |-> [capexM |-> Dec(105, 2), opexPerYear |-> Num(126000)],
   dac |-> [capexM |-> Num(4), opexPerYear |-> Num(350000)],
   districtHeat |-> [capexM |-> Dec(8, 1), opexPerYear |-> Num(80000)],
   greenhouses |-> [capexM |-> Dec(3, 1), opexPerYear |-> Num(30000)],
   hotWater |-> [capexM |-> Dec(2, 1), opexPerYear |-> Num(20000)],
   foodBrewery |-> [capexM |-> Dec(625, 2), opexPerYear |-> Num(1710000)]]

\* Strings that the code searches are sequences of characters
Str_Direct_evaporative_air == <<"D", "i", "r", "e", "c", "t", " ", "e", "v", "a", "p", "o", "r", "a", "t", "i", "v", "e", " ", "a", "i", "r">>
Str_Indirect_evap_mech_backup == <<"I", "n", "d", "i", "r", "e", "c", "t", " ", "e", "v", "a", "p", " ", "+", " ", "m", "e", "c", "h", " ", "b", "a", "c", "k", "u", "p">>
Str_Air_cooled_chillers == <<"A", "i", "r", "-", "c", "o", "o", "l", "e", "d", " ", "c", "h", "i", "l", "l", "e", "r", "s", ",", " ", "c", "l", "o", "s", "e", "d", "-", "l", "o", "o", "p", " ", "F", "W">>
Str_evaporative == <<"e", "v", "a", "p", "o", "r", "a", "t", "i", "v", "e">>
Str_Evaporative == <<"E", "v", "a", "p", "o", "r", "a", "t", "i", "v", "e">>
Str_evap == <<"e", "v", "a", "p">>
Str_mech == <<"m", "e", "c", "h">>

\* String.prototype.includes
includes(text, key) ==
  \E t \in {text}, k \in {key} :
    \E i \in 0..(Len(t) - Len(k)) : SubSeq(t, i + 1, i + Len(k)) = k

FACILITIES ==
  [Ballard |->
     [coolingType |-> Str_Direct_evaporative_air,
      electricityCostPerMWh |-> Num(60), pueBaseline |-> Dec(159, 2),
      pueMaxImprovement |-> Dec(6, 2), wueBaseline |-> Dec(359, 3)],
   Osgood |->
     [coolingType |-> Str_Indirect_evap_mech_backup,
      electricityCostPerMWh |-> Num(80), pueBaseline |-> Dec(165, 2),
      pueMaxImprovement |-> Dec(9, 2), wueBaseline |-> Dec(45, 2)],
   FremontFairwater |->
     [coolingType |-> Str_Air_cooled_chillers,
      electricityCostPerMWh |-> Num(115), pueBaseline |-> Dec(172, 2),
      pueMaxImprovement |-> Dec(4, 2), wueBaseline |-> Zero]]

\* ------------------------------------------------------------------------
\* Helpers (part_002 lines 69-86)
\* ------------------------------------------------------------------------
\* clamp without the upper bound
clampNoMax(n, min, max) == MathMax(min, n)

clamp(n, min, max) == MathMin(max, MathMax(min, n))

\* ramp without the ceiling branch
rampNoCeiling(tempC, t0, t1, v0, v1) ==
  IF Leq(tempC, t0) THEN v0
  ELSE LET f == Div(Sub(tempC, t0), Sub(t1, t0))
       IN  Add(v0, Mul(f, Sub(v1, v0)))

ramp(tempC, t0, t1, v0, v1) ==
  IF Leq(tempC, t0) THEN v0
  ELSE IF Geq(tempC, t1) THEN v1
  ELSE LET f == Div(Sub(tempC, t0), Sub(t1, t0))
       IN  Add(v0, Mul(f, Sub(v1, v0)))

\* ------------------------------------------------------------------------
\* The derivations of Page(), each a function of the hook values in
\* and of the derived values it reads
\* ------------------------------------------------------------------------
\* supply temperature taken 12 C above the return
dcSupplyTempCAbove(in) == Add(in.dcReturnTempC, Num(12))

\* line 684
dcSupplyTempC(in) == Sub(in.dcReturnTempC, Num(12))

\* "Process temp suitability" row of the food/brewery panel (line 2142)
processSuitabilityOf(dcReturnTempC) ==
  IF Less(dcReturnTempC, Num(80)) THEN "Many steps need lift" ELSE "More direct use"

\* core with a 90% capacity factor on the annual heat
coreOfCapacityFactor(in) ==
  LET recFrac == Div(clamp(in.recoveryPct, Num(0), Num(100)), Num(100))
      recoverableHeatMW == Mul(in.itLoadMW, recFrac)
      annualHeatMWh == Mul(Mul(recoverableHeatMW, in.hoursPerYear), Dec(9, 1))
      effectiveMWyr == Mul(recoverableHeatMW, Div(in.hoursPerYear, Num(8760)))
      dcDeltaT == MathMax(Num(1), Sub(in.dcReturnTempC, dcSupplyTempC(in)))
  IN  [recoverableHeatMW |-> recoverableHeatMW, annualHeatMWh |-> annualHeatMWh,
       effectiveMWyr |-> effectiveMWyr, dcDeltaT |-> dcDeltaT]

coreOf(in) ==
  LET recFrac == Div(clamp(in.recoveryPct, Num(0), Num(100)), Num(100))
      recoverableHeatMW == Mul(in.itLoadMW, recFrac)
      annualHeatMWh == Mul(recoverableHeatMW, in.hoursPerYear)
      effectiveMWyr == Mul(recoverableHeatMW, Div(in.hoursPerYear, Num(8760)))
      dcDeltaT == MathMax(Num(1), Sub(in.dcReturnTempC, dcSupplyTempC(in)))
  IN  [recoverableHeatMW |-> recoverableHeatMW, annualHeatMWh |-> annualHeatMWh,
       effectiveMWyr |-> effectiveMWyr, dcDeltaT |-> dcDeltaT]

phxM3PerPersonYearOf(in) == Mul(Mul(in.phxGpcd, GAL_TO_M3), Num(365))

\* performance factors with the DAC ramp ending at 80 C instead of the
\* release temperature
perfOfDacLate(in) ==
  [uravuFactor |-> ramp(in.dcReturnTempC, Num(30), Num(55), Dec(75, 2), Num(1)),
   treviFactor |-> ramp(in.dcReturnTempC, Num(30), Num(45), Dec(85, 2), Num(1)),
   dacFactor |-> ramp(in.dcReturnTempC, Num(30), Num(80), Dec(5, 1), Num(1)),
   greenhouseFactor |-> ramp(in.dcReturnTempC, Num(30), Num(60), Dec(9, 1), Num(1))]

perfOf(in) ==
  [uravuFactor |-> ramp(in.dcReturnTempC, Num(30), Num(55), Dec(75, 2), Num(1)),
   treviFactor |-> ramp(in.dcReturnTempC, Num(30), Num(45), Dec(85, 2), Num(1)),
   dacFactor |-> ramp(in.dcReturnTempC, Num(30), Num(DAC_RELEASE_TEMP_C), Dec(5, 1), Num(1)),
   greenhouseFactor |-> ramp(in.dcReturnTempC, Num(30), Num(60), Dec(9, 1), Num(1))]

\* outputs with the people-served ratios taken without the guard on the
\* per-capita use
outputsOfUnguarded(in, core, perf, phxM3PerPersonYear) ==
  LET mw == core.recoverableHeatMW
      treviM3PerYear == Mul(Mul(mw, TREVI_M3_PER_MW_YEAR_MID), perf.treviFactor)
      uravuM3PerYear == Mul(Mul(mw, URAVU_M3_PER_MW_YEAR_MID), perf.uravuFactor)
      homesHeated == IF Greater(in.mwhPerHomeYear, Zero)
                     THEN Div(core.annualHeatMWh, in.mwhPerHomeYear) ELSE Zero
      greenhouseHa == Mul(Div(core.annualHeatMWh, Num(GREENHOUSE_MWH_PER_HA_YEAR_DEFAULT)),
                          perf.greenhouseFactor)
      dacTco2PerYear == Mul(Mul(core.effectiveMWyr, Num(DAC_TCO2_PER_MW_YEAR)), perf.dacFactor)
      dacWaterM3PerYear == Mul(core.effectiveMWyr, Num(DAC_WATER_M3_PER_MW_YEAR))
  IN  [treviM3PerYear |-> treviM3PerYear, uravuM3PerYear |-> uravuM3PerYear,
       greenhouseHa |-> greenhouseHa, homesHeated |-> homesHeated,
       dacTco2PerYear |-> dacTco2PerYear, dacWaterM3PerYear |-> dacWaterM3PerYear,
       treviPeoplePerYear |-> Div(treviM3PerYear, phxM3PerPersonYear),
       uravuPeoplePerYear |-> Div(uravuM3PerYear, phxM3PerPersonYear),
       dacPeoplePerYear |-> Div(dacWaterM3PerYear, phxM3PerPersonYear)]

\* outputs with the DAC water taken in proportion to the captured CO2
outputsOfWaterFromCo2(in, core, perf, phxM3PerPersonYear) ==
  LET mw == core.recoverableHeatMW
      treviM3PerYear == Mul(Mul(mw, TREVI_M3_PER_MW_YEAR_MID), perf.treviFactor)
      uravuM3PerYear == Mul(Mul(mw, URAVU_M3_PER_MW_YEAR_MID), perf.uravuFactor)
      homesHeated == IF Greater(in.mwhPerHomeYear, Zero)
                     THEN Div(core.annualHeatMWh, in.mwhPerHomeYear) ELSE Zero
      greenhouseHa == Mul(Div(core.annualHeatMWh, Num(GREENHOUSE_MWH_PER_HA_YEAR_DEFAULT)),
                          perf.greenhouseFactor)
      dacTco2PerYear == Mul(Mul(core.effectiveMWyr, Num(DAC_TCO2_PER_MW_YEAR)), perf.dacFactor)
      dacWaterM3PerYear ==
        Mul(Mul(core.effectiveMWyr, Num(DAC_WATER_M3_PER_MW_YEAR)), perf.dacFactor)
      people(v) == IF Greater(phxM3PerPersonYear, Zero)
                   THEN Div(v, phxM3PerPersonYear) ELSE Zero
  IN  [treviM3PerYear |-> treviM3PerYear, uravuM3PerYear |-> uravuM3PerYear,
       greenhouseHa |-> greenhouseHa, homesHeated |-> homesHeated,
       dacTco2PerYear |-> dacTco2PerYear, dacWaterM3PerYear |-> dacWaterM3PerYear,
       treviPeoplePerYear |-> people(treviM3PerYear),
       uravuPeoplePerYear |-> people(uravuM3PerYear),
       dacPeoplePerYear |-> people(dacWaterM3PerYear)]

outputsOf(in, core, perf, phxM3PerPersonYear) ==
  LET mw == core.recoverableHeatMW
      treviM3PerYear == Mul(Mul(mw, TREVI_M3_PER_MW_YEAR_MID), perf.treviFactor)
      uravuM3PerYear == Mul(Mul(mw, URAVU_M3_PER_MW_YEAR_MID), perf.uravuFactor)
      homesHeated == IF Greater(in.mwhPerHomeYear, Zero)
                     THEN Div(core.annualHeatMWh, in.mwhPerHomeYear) ELSE Zero
      greenhouseHa == Mul(Div(core.annualHeatMWh, Num(GREENHOUSE_MWH_PER_HA_YEAR_DEFAULT)),
                          perf.greenhouseFactor)
      dacTco2PerYear == Mul(Mul(core.effectiveMWyr, Num(DAC_TCO2_PER_MW_YEAR)), perf.dacFactor)
      dacWaterM3PerYear == Mul(core.effectiveMWyr, Num(DAC_WATER_M3_PER_MW_YEAR))
      people(v) == IF Greater(phxM3PerPersonYear, Zero)
                   THEN Div(v, phxM3PerPersonYear) ELSE Zero
  IN  [treviM3PerYear |-> treviM3PerYear, uravuM3PerYear |-> uravuM3PerYear,
       greenhouseHa |-> greenhouseHa, homesHeated |-> homesHeated,
       dacTco2PerYear |-> dacTco2PerYear, dacWaterM3PerYear |-> dacWaterM3PerYear,
       treviPeoplePerYear |-> people(treviM3PerYear),
       uravuPeoplePerYear |-> people(uravuM3PerYear),
       dacPeoplePerYear |-> people(dacWaterM3PerYear)]

\* x || 0
OrZero(x) == IF Truthy(x) THEN x ELSE Zero

co2Range(r, mw) ==
  [kind |-> "range", tco2 |-> Null, minKt |-> Mul(r.min, mw),
   midKt |-> Mul(Div(Add(r.min, r.max), Num(2)), mw), maxKt |-> Mul(r.max, mw)]

potentialCO2Of(in, core, outputs) ==
  LET mw == core.recoverableHeatMW
  IN  CASE in.offtake = "dac" ->
             [kind |-> "dac", tco2 |-> OrZero(outputs.dacTco2PerYear),
              minKt |-> Null, midKt |-> Null, maxKt |-> Null]
        [] in.offtake = "waterTreatmentFO" -> co2Range(FO_CO2_KT_RANGE, mw)
        [] in.offtake = "foodBrewery" -> co2Range(FNB_CO2_KT_RANGE, mw)
        [] in.offtake = "atmosphericWater" -> co2Range(AWH_CO2_KT_RANGE, mw)
        [] in.offtake = "greenhouses" -> co2Range(GREENHOUSE_CO2_KT_PER_MWYR_RANGE, mw)
        [] in.offtake = "districtHeat" -> co2Range(DISTRICT_HEAT_CO2_KT_RANGE, mw)
        \* default: return null
        [] OTHER -> [kind |-> "null", tco2 |-> Null, minKt |-> Null,
                     midKt |-> Null, maxKt |-> Null]

\* ------------------------------------------------------------------------
\* Region reference rows (offData.raw_rows): the spreadsheet rows the piping
\* cost reads; field EMPTY is the location name (__EMPTY), EMPTY_9 the
\* subsidy fraction (__EMPTY_9)
\* ------------------------------------------------------------------------
Str_Location == <<"L", "o", "c", "a", "t", "i", "o", "n">>
Str_European_average == <<"E", "u", "r", "o", "p", "e", "a", "n", " ", "a", "v", "e", "r", "a", "g", "e">>
Str_european_average == <<"e", "u", "r", "o", "p", "e", "a", "n", " ", "a", "v", "e", "r", "a", "g", "e">>
Str_Germany == <<"G", "e", "r", "m", "a", "n", "y">>
Str_Sweden == <<"S", "w", "e", "d", "e", "n">>
Str_empty == <<>>

UpperCase == {"E", "G", "L", "S"}
toLowerCase(str) ==
  [i \in 1..Len(str) |->
     IF str[i] \in UpperCase
     THEN (CASE str[i] = "E" -> "e" [] str[i] = "G" -> "g"
             [] str[i] = "L" -> "l" [] str[i] = "S" -> "s")
     ELSE str[i]]

RAW_ROWS ==
  << [EMPTY |-> Str_Location, EMPTY_9 |-> Null],
     [EMPTY |-> Str_European_average, EMPTY_9 |-> Null],
     [EMPTY |-> Str_Germany, EMPTY_9 |-> Dec(3, 1)],
     [EMPTY |-> Null, EMPTY_9 |-> Null],
     [EMPTY |-> Str_Sweden, EMPTY_9 |-> Dec(2, 1)] >>

NoRow == [EMPTY |-> Null, EMPTY_9 |-> Null, none |-> TRUE]

\* String(r.__EMPTY || "").toLowerCase()
rowLoc(r) == toLowerCase(IF r.EMPTY = Null THEN Str_empty ELSE r.EMPTY)

\* the indices of the rows the first loop of findRegionRow accepts
matchingRows(rows, region) ==
  CHOOSE hits \in
    { {i \in 1..Len(rows) :
         \E loc \in {rowLoc(rows[i])} : includes(loc, key) \/ includes(key, loc)}
      : key \in {toLowerCase(region)} } : TRUE

\* the indices of the rows the fallback loop accepts
europeanAverageRows(rows) ==
  {i \in 1..Len(rows) : includes(rowLoc(rows[i]), Str_european_average)}

\* offtakeCosts.findRegionRow (lines 887-897): the first matching row,
\* else the first "european average" row, else null
findRegionRow(rows, region) ==
  CHOOSE row \in
    { IF hits # {} THEN rows[CHOOSE i \in hits : \A j \in hits : i <= j]
      ELSE IF dflt # {} THEN rows[CHOOSE i \in dflt : \A j \in dflt : i <= j]
      ELSE NoRow
      : hits \in {matchingRows(rows, region)},
        dflt \in {europeanAverageRows(rows)} } : TRUE

offtakeCostsOf(in, core) ==
  CHOOSE costs \in
    { LET subsidy == IF row # NoRow /\ Truthy(row.EMPTY_9) THEN row.EMPTY_9 ELSE Zero
          baseCapexPerMW == Mul(Num(200000),
                                Sub(Num(1), IF IsFinite(subsidy) THEN subsidy ELSE Zero))
          distanceCostPerMWperKm == Num(10000)
          totalCapex == Mul(Add(baseCapexPerMW,
                                Mul(distanceCostPerMWperKm, in.intakeDistanceKm)),
                            core.recoverableHeatMW)
          annualOpex == Mul(totalCapex, Dec(3, 2))
      IN  [totalCapex |-> totalCapex, annualOpex |-> annualOpex,
           pipingLengthKm |-> in.intakeDistanceKm, sourceRow |-> row]
      : row \in {findRegionRow(RAW_ROWS, in.country)} } : TRUE

\* ------------------------------------------------------------------------
\* DC savings / PUE / WUE / ERF / ERE (lines 996-1072)
\* ------------------------------------------------------------------------
FacilityKeys == {"Ballard", "Osgood", "FremontFairwater"}

\* baseEre with the two keyword tests in the other order
baseEreOfEvapFirst(coolingType) ==
  IF includes(coolingType, Str_evap) \/ includes(coolingType, Str_mech)
  THEN Dec(82, 2)
  ELSE IF includes(coolingType, Str_evaporative) \/ includes(coolingType, Str_Evaporative)
  THEN Dec(78, 2)
  ELSE Dec(75, 2)

baseEreOf(coolingType) ==
  IF includes(coolingType, Str_evaporative) \/ includes(coolingType, Str_Evaporative)
  THEN Dec(78, 2)
  ELSE IF includes(coolingType, Str_evap) \/ includes(coolingType, Str_mech)
  THEN Dec(82, 2)
  ELSE Dec(75, 2)

\* temperature adjustment factor for PUE/WUE improvements (line 1020)
tempAdjustmentFactorOf(dcReturnTempC) ==
  MathMax(Dec(85, 2), Sub(Num(1), Div(Sub(dcReturnTempC, Num(25)), Num(100))))

\* pueWithHR without the temperature factor
pueWithHRNoTemp(pueBaseline, pueSavingsPercent, erf, tempAdjustmentFactor) ==
  IF erf = Zero THEN pueBaseline
  ELSE Mul(pueBaseline, Sub(Num(1), Mul(pueSavingsPercent, erf)))

\* line 1025
pueWithHROf(pueBaseline, pueSavingsPercent, erf, tempAdjustmentFactor) ==
  IF erf = Zero THEN pueBaseline
  ELSE Mul(pueBaseline,
           Sub(Num(1), Mul(Mul(pueSavingsPercent, erf), tempAdjustmentFactor)))

\* lines 1029-1035
wueWithHROf(wueBaseline, erf, tempAdjustmentFactor) ==
  IF Greater(wueBaseline, Zero)
  THEN (IF erf = Zero THEN wueBaseline
        ELSE Mul(wueBaseline,
                 Sub(Num(1), Mul(Mul(Dec(15, 2), erf), tempAdjustmentFactor))))
  ELSE Zero

\* wueReduction without the guard on the baseline
wueReductionUnguarded(wueBaseline, wueWithHR) ==
  Mul(Div(Sub(wueBaseline, wueWithHR), wueBaseline), Num(100))

\* lines 1038-1040
wueReductionOf(wueBaseline, wueWithHR) ==
  IF Truthy(wueBaseline) /\ Greater(wueBaseline, Zero) /\ wueWithHR # Null
  THEN Mul(Div(Sub(wueBaseline, wueWithHR), wueBaseline), Num(100))
  ELSE Null

\* lines 1051-1058
annualOperationalSavingsOf(in, core, erf) ==
  IF Greater(core.recoverableHeatMW, Zero)
  THEN LET coolingEfficiencyFactor == Div(Num(1), in.coolingCOP)
           energySavedMWh ==
             Mul(Mul(Mul(core.recoverableHeatMW, erf), in.hoursPerYear),
                 coolingEfficiencyFactor)
       IN  Mul(energySavedMWh, in.electricityCost)
  ELSE Zero

dcSavingsOf(in, core) ==
  LET erf == Div(in.erfPercent, Num(100))
  IN  IF in.dcConfig \notin FacilityKeys
      THEN [pueBaseline |-> Null, pueWithHR |-> Null, pueReduction |-> Null,
            wueBaseline |-> Null, wueWithHR |-> Null, wueReduction |-> Null,
            erf |-> erf, ere |-> Null, annualOperationalSavings |-> Zero]
      ELSE
      LET facility == FACILITIES[in.dcConfig]
          pueBaseline == facility.pueBaseline
          wueBaseline == facility.wueBaseline
          tempAdjustmentFactor == tempAdjustmentFactorOf(in.dcReturnTempC)
          pueSavingsPercent == facility.pueMaxImprovement
          pueWithHR ==
            pueWithHROf(pueBaseline, pueSavingsPercent, erf, tempAdjustmentFactor)
          wueWithHR == wueWithHROf(wueBaseline, erf, tempAdjustmentFactor)
          pueReduction ==
            IF Truthy(pueBaseline)
            THEN Mul(Div(Sub(pueBaseline, pueWithHR), pueBaseline), Num(100))
            ELSE Null
          wueReduction == wueReductionOf(wueBaseline, wueWithHR)
          baseEre == baseEreOf(facility.coolingType)
          ere == IF Greater(erf, Zero) THEN Mul(baseEre, erf) ELSE Null
      IN  [pueBaseline |-> pueBaseline, pueWithHR |-> pueWithHR,
           pueReduction |-> pueReduction, wueBaseline |-> wueBaseline,
           wueWithHR |-> wueWithHR, wueReduction |-> wueReduction,
           erf |-> erf, ere |-> ere,
           annualOperationalSavings |-> annualOperationalSavingsOf(in, core, erf)]

\* ------------------------------------------------------------------------
\* Normalized outputs and the CO2 comparison table (lines 1074-1118)
\* ------------------------------------------------------------------------
\* normalized outputs with the DAC and homes figures taken at the facility
\* load instead of per MW
normalizedOfAtLoad(in, perf, phxM3PerPersonYear) ==
  LET treviM3_per_MWyr == Mul(TREVI_M3_PER_MW_YEAR_MID, perf.treviFactor)
      uravuM3_per_MWyr == Mul(URAVU_M3_PER_MW_YEAR_MID, perf.uravuFactor)
      dacTco2_per_MWyr == Mul(Mul(Num(DAC_TCO2_PER_MW_YEAR), perf.dacFactor), in.itLoadMW)
      dacWaterM3_per_MWyr == Num(DAC_WATER_M3_PER_MW_YEAR)
      homes_per_MWyr == IF Greater(in.mwhPerHomeYear, Zero)
                        THEN Mul(Div(Num(MWH_PER_MW_YEAR), in.mwhPerHomeYear), in.itLoadMW)
                        ELSE Zero
      greenhouseHa_per_MWyr ==
        Mul(Div(Num(MWH_PER_MW_YEAR), Num(GREENHOUSE_MWH_PER_HA_YEAR_DEFAULT)),
            perf.greenhouseFactor)
      people(v) == IF Greater(phxM3PerPersonYear, Zero)
                   THEN Div(v, phxM3PerPersonYear) ELSE Zero
  IN  [treviM3_per_MWyr |-> treviM3_per_MWyr, uravuM3_per_MWyr |-> uravuM3_per_MWyr,
       dacTco2_per_MWyr |-> dacTco2_per_MWyr, dacWaterM3_per_MWyr |-> dacWaterM3_per_MWyr,
       homes_per_MWyr |-> homes_per_MWyr, greenhouseHa_per_MWyr |-> greenhouseHa_per_MWyr,
       phxPeoplePerMWyr_trevi |-> people(treviM3_per_MWyr),
       phxPeoplePerMWyr_uravu |-> people(uravuM3_per_MWyr),
       phxPeoplePerMWyr_dac |-> people(dacWaterM3_per_MWyr)]

normalizedOf(in, perf, phxM3PerPersonYear) ==
  LET treviM3_per_MWyr == Mul(TREVI_M3_PER_MW_YEAR_MID, perf.treviFactor)
      uravuM3_per_MWyr == Mul(URAVU_M3_PER_MW_YEAR_MID, perf.uravuFactor)
      dacTco2_per_MWyr == Mul(Num(DAC_TCO2_PER_MW_YEAR), perf.dacFactor)
      dacWaterM3_per_MWyr == Num(DAC_WATER_M3_PER_MW_YEAR)
      homes_per_MWyr == IF Greater(in.mwhPerHomeYear, Zero)
                        THEN Div(Num(MWH_PER_MW_YEAR), in.mwhPerHomeYear) ELSE Zero
      greenhouseHa_per_MWyr ==
        Mul(Div(Num(MWH_PER_MW_YEAR), Num(GREENHOUSE_MWH_PER_HA_YEAR_DEFAULT)),
            perf.greenhouseFactor)
      people(v) == IF Greater(phxM3PerPersonYear, Zero)
                   THEN Div(v, phxM3PerPersonYear) ELSE Zero
  IN  [treviM3_per_MWyr |-> treviM3_per_MWyr, uravuM3_per_MWyr |-> uravuM3_per_MWyr,
       dacTco2_per_MWyr |-> dacTco2_per_MWyr, dacWaterM3_per_MWyr |-> dacWaterM3_per_MWyr,
       homes_per_MWyr |-> homes_per_MWyr, greenhouseHa_per_MWyr |-> greenhouseHa_per_MWyr,
       phxPeoplePerMWyr_trevi |-> people(treviM3_per_MWyr),
       phxPeoplePerMWyr_uravu |-> people(uravuM3_per_MWyr),
       phxPeoplePerMWyr_dac |-> people(dacWaterM3_per_MWyr)]

\* a row whose best value is the half-width of the range
mkHalfWidth(label, r) ==
  [label |-> label, min |-> r.min, max |-> r.max,
   best |-> Div(Sub(r.max, r.min), Num(2))]

mk(label, r) ==
  [label |-> label, min |-> r.min, max |-> r.max,
   best |-> Div(Add(r.min, r.max), Num(2))]

co2Bars ==
  << mk("Direct Air Capture (DAC)", DAC_CO2_KT_RANGE),
     mk("FO Waste Water Treatment", FO_CO2_KT_RANGE),
     mk("Food & Beverage (EU)", FNB_CO2_KT_RANGE),
     mk("Atmospheric Water Capture", AWH_CO2_KT_RANGE),
     mk("Greenhouses & Agriculture", GREENHOUSE_CO2_KT_PER_MWYR_RANGE),
     mk("District Heating (proxy)", DISTRICT_HEAT_CO2_KT_RANGE) >>

\* ------------------------------------------------------------------------
\* Ownership model comparison (lines 1129-1204)
\* ------------------------------------------------------------------------
\* thermal revenue taken per MW-year instead of from annualHeatMWh
offtakeRevenueOfPerMW(in, core, outputs) ==
  IF in.offtake = "dac"
  THEN Mul(outputs.dacTco2PerYear, Sub(in.dacMarketPrice, in.dacProcurementPrice))
  ELSE IF in.offtake = "waterTreatmentFO" \/ in.offtake = "atmosphericWater"
  THEN LET waterVolume == IF in.offtake = "waterTreatmentFO"
                          THEN outputs.treviM3PerYear ELSE outputs.uravuM3PerYear
       IN  Mul(waterVolume, Sub(in.waterMarketPrice, in.waterProductionCost))
  ELSE Mul(Num(MWH_PER_MW_YEAR), in.thermalEnergyPrice)

\* offtake revenue by offtake kind (lines 1136-1146)
offtakeRevenueOf(in, core, outputs) ==
  IF in.offtake = "dac"
  THEN Mul(outputs.dacTco2PerYear, Sub(in.dacMarketPrice, in.dacProcurementPrice))
  ELSE IF in.offtake = "waterTreatmentFO" \/ in.offtake = "atmosphericWater"
  THEN LET waterVolume == IF in.offtake = "waterTreatmentFO"
                          THEN outputs.treviM3PerYear ELSE outputs.uravuM3PerYear
       IN  Mul(waterVolume, Sub(in.waterMarketPrice, in.waterProductionCost))
  ELSE Mul(core.annualHeatMWh, in.thermalEnergyPrice)

\* Model A payback that forgets the plant opex
paybackANoOpex(totalCapex, savings, annualRevenue, offtakePlantOpex) ==
  Div(totalCapex, Add(savings, annualRevenue))

\* paybackYears of Model A (lines 1154-1155)
paybackA(totalCapex, savings, annualRevenue, offtakePlantOpex) ==
  Div(totalCapex, Sub(Add(savings, annualRevenue), offtakePlantOpex))

\* Model B/C payback with the income subtracted
paybackBCMinus(heatExchangerCapex, savings, income) ==
  Div(heatExchangerCapex, Sub(savings, income))

\* paybackYears of Models B and C (lines 1165, 1176)
paybackBC(heatExchangerCapex, savings, income) ==
  Div(heatExchangerCapex, Add(savings, income))

\* thirdPartyProfit of Model B (line 1166)
thirdPartyProfitB(annualRevenue, offtakePlantOpex, annualTippingFee) ==
  Sub(Sub(annualRevenue, offtakePlantOpex), annualTippingFee)

\* Model C third-party profit with the operator's share instead of the rest
thirdPartyProfitCShare(annualRevenue, revenueSharePercent, offtakePlantOpex) ==
  Sub(Mul(annualRevenue, Div(revenueSharePercent, Num(100))), offtakePlantOpex)

\* thirdPartyProfit of Model C (line 1177)
thirdPartyProfitC(annualRevenue, revenueSharePercent, offtakePlantOpex) ==
  Sub(Mul(annualRevenue, Sub(Num(1), Div(revenueSharePercent, Num(100)))),
      offtakePlantOpex)

\* the returned record; offtakeRevenue exposes the local annualRevenue
ownershipComparisonOf(in, core, outputs, offtakeCosts, dcSavings) ==
  LET plantCosts == OFFTAKE_PLANT_COSTS[in.offtake]
      heatExchangerCapex ==
        Mul(Mul(core.recoverableHeatMW, in.whrCapitalCostPerMW), Num(1000000))
      pipingCapex == MathAbs(offtakeCosts.totalCapex)
      offtakePlantCapex == Mul(plantCosts.capexM, Num(1000000))
      offtakePlantOpex == plantCosts.opexPerYear
      annualRevenue == offtakeRevenueOf(in, core, outputs)
      savings == dcSavings.annualOperationalSavings
      capexA == Add(Add(heatExchangerCapex, pipingCapex), offtakePlantCapex)
      modelA ==
        [totalCapex |-> capexA,
         annualOpex |-> offtakePlantOpex,
         annualRevenue |-> Add(savings, annualRevenue),
         annualProfit |-> Sub(Add(savings, annualRevenue), offtakePlantOpex),
         paybackYears |-> paybackA(capexA, savings, annualRevenue, offtakePlantOpex)]
      annualTippingFee == Mul(core.annualHeatMWh, in.tippingFeePerMWh)
      modelB ==
        [totalCapex |-> heatExchangerCapex,
         annualOpex |-> Zero,
         annualRevenue |-> Add(savings, annualTippingFee),
         annualProfit |-> Add(savings, annualTippingFee),
         paybackYears |-> paybackBC(heatExchangerCapex, savings, annualTippingFee),
         thirdPartyProfit |->
           thirdPartyProfitB(annualRevenue, offtakePlantOpex, annualTippingFee)]
      msRevenueShare == Mul(annualRevenue, Div(in.revenueSharePercent, Num(100)))
      modelC ==
        [totalCapex |-> heatExchangerCapex,
         annualOpex |-> Zero,
         annualRevenue |-> Add(savings, msRevenueShare),
         annualProfit |-> Add(savings, msRevenueShare),
         paybackYears |-> paybackBC(heatExchangerCapex, savings, msRevenueShare),
         thirdPartyProfit |->
           thirdPartyProfitC(annualRevenue, in.revenueSharePercent, offtakePlantOpex)]
  IN  [plantCosts |-> plantCosts, heatExchangerCapex |-> heatExchangerCapex,
       pipingCapex |-> pipingCapex, offtakePlantCapex |-> offtakePlantCapex,
       offtakeRevenue |-> annualRevenue,
       modelA |-> modelA, modelB |-> modelB, modelC |-> modelC]

\* the "Payback Period" rows (lines 3048-3110): paybackYears.toFixed(1) + " yrs"
PaybackRow(model) == toFixed1(model.paybackYears)

\* ------------------------------------------------------------------------
\* useMemo: dependency arrays (the primitive-valued entries; entries that
\* are memoised objects are compared by identity, which changes exactly
\* when that object was recomputed in the same render)
\* ------------------------------------------------------------------------
coreDeps(in) ==
  <<in.itLoadMW, in.recoveryPct, in.hoursPerYear, in.dcReturnTempC, dcSupplyTempC(in)>>
phxDeps(in) == <<in.phxGpcd>>
perfDeps(in) == <<in.dcReturnTempC>>
outputsDeps(in, phx) == <<in.mwhPerHomeYear, phx>>
potentialCO2Deps(in, core) == <<in.offtake, core.recoverableHeatMW>>
offtakeCostsDeps(in, core) == <<in.country, in.intakeDistanceKm, core.recoverableHeatMW>>
dcSavingsDeps(in, core) ==
  <<in.dcConfig, in.erfPercent, in.recoveryPct, in.dcCity, core.recoverableHeatMW,
    in.dcReturnTempC, in.itLoadMW, in.hoursPerYear, in.electricityCost, in.coolingCOP>>
normalizedDeps(in, phx) == <<in.mwhPerHomeYear, phx>>
\* useMemo(..., []) (line 1118)
co2BarsDeps == <<>>
\* dependency array that omits tippingFeePerMWh
ownershipComparisonDepsNoTip(in, core, offtakeCosts, dcSavings) ==
  <<in.offtake, core.recoverableHeatMW, core.annualHeatMWh, in.whrCapitalCostPerMW,
    offtakeCosts.totalCapex, dcSavings.annualOperationalSavings,
    in.dacMarketPrice, in.dacProcurementPrice, in.waterMarketPrice,
    in.waterProductionCost, in.thermalEnergyPrice, in.revenueSharePercent>>

ownershipComparisonDeps(in, core, offtakeCosts, dcSavings) ==
  <<in.offtake, core.recoverableHeatMW, core.annualHeatMWh, in.whrCapitalCostPerMW,
    offtakeCosts.totalCapex, dcSavings.annualOperationalSavings,
    in.dacMarketPrice, in.dacProcurementPrice, in.waterMarketPrice,
    in.waterProductionCost, in.thermalEnergyPrice, in.tippingFeePerMWh,
    in.revenueSharePercent>>

\* one memo cell: the dependency values of the last computation and its value
Cell(deps, val) == [deps |-> deps, val |-> val]

\* the caches before the first render: no dependency array recorded (the
\* marker differs from every array a render records, the empty one included)
Unmounted ==
  [c \in {"core", "phx", "perf", "outputs", "potentialCO2", "offtakeCosts",
          "dcSavings", "normalized", "co2Bars", "ownershipComparison"}
     |-> Cell(<<Null>>, <<>>)]

\* useMemo(() => val, deps) over the cell old: val is computed when deps
\* differs from the recorded array or a memoised object among the
\* dependencies was itself recomputed in this render (objectChanged)
useMemo(old, deps, objectChanged, val) ==
  CHOOSE c \in
    { IF objectChanged \/ old.deps # d
      THEN [deps |-> d, val |-> val, new |-> TRUE]
      ELSE [deps |-> d, val |-> old.val, new |-> FALSE]
      : d \in {deps} } : TRUE

\* the last two useMemo calls of a render and the resulting caches
RenderOwnership(in, m, core, phx, perf, outputs, cost, sav, norm) ==
  CHOOSE r \in
    { [core |-> Cell(core.deps, core.val), phx |-> Cell(phx.deps, phx.val),
       perf |-> Cell(perf.deps, perf.val),
       outputs |-> Cell(outputs.deps, outputs.val),
       potentialCO2 |-> Cell(pco2.deps, pco2.val),
       offtakeCosts |-> Cell(cost.deps, cost.val),
       dcSavings |-> Cell(sav.deps, sav.val),
       normalized |-> Cell(norm.deps, norm.val),
       co2Bars |-> Cell(bars.deps, bars.val),
       ownershipComparison |-> Cell(own.deps, own.val)]
      : bars \in {useMemo(m.co2Bars, co2BarsDeps, FALSE, co2Bars)},
        pco2 \in {useMemo(m.potentialCO2, potentialCO2Deps(in, core.val), outputs.new,
                          potentialCO2Of(in, core.val, outputs.val))},
        own \in {useMemo(m.ownershipComparison,
                         ownershipComparisonDeps(in, core.val, cost.val, sav.val),
                         outputs.new,
                         ownershipComparisonOf(in, core.val, outputs.val,
                                               cost.val, sav.val))} } : TRUE

\* the useMemo calls that read core, phx and perf
RenderDerived(in, m, core, phx, perf) ==
  CHOOSE r \in
    { RenderOwnership(in, m, core, phx, perf, outputs, cost, sav, norm)
      : outputs \in {useMemo(m.outputs, outputsDeps(in, phx.val),
                             core.new \/ perf.new,
                             outputsOf(in, core.val, perf.val, phx.val))},
        cost \in {useMemo(m.offtakeCosts, offtakeCostsDeps(in, core.val), FALSE,
                          offtakeCostsOf(in, core.val))},
        sav \in {useMemo(m.dcSavings, dcSavingsDeps(in, core.val), FALSE,
                         dcSavingsOf(in, core.val))},
        norm \in {useMemo(m.normalized, normalizedDeps(in, phx.val), perf.new,
                          normalizedOf(in, perf.val, phx.val))} } : TRUE

\* One render of Page(): the useMemo calls in source order, starting with
\* the three that read hook values only.
Render(in, m) ==
  CHOOSE r \in
    { RenderDerived(i, m, core, phx, perf)
      : i \in {in},
        core \in {useMemo(m.core, coreDeps(in), FALSE, coreOf(in))},
        phx \in {useMemo(m.phx, phxDeps(in), FALSE, phxM3PerPersonYearOf(in))},
        perf \in {useMemo(m.perf, perfDeps(in), FALSE, perfOf(in))} } : TRUE

\* the whole pipeline evaluated from scratch on the inputs alone
Fresh(in) == Render(in, Unmounted)

\* ------------------------------------------------------------------------
\* State
\* ------------------------------------------------------------------------
VARIABLES inp, memo, nEdits
vars == <<inp, memo, nEdits>>

\* length of the editing session explored
MaxEdits == 2

\* useState initial values (lines 657-717)
Defaults ==
  [offtake |-> "dac", itLoadMW |-> Num(200), recoveryPct |-> Num(10),
   hoursPerYear |-> Num(8760), dcReturnTempC |-> Num(27),
   mwhPerHomeYear |-> DEFAULT_MWH_PER_HOME_YEAR, phxGpcd |-> Num(125),
   intakeDistanceKm |-> Dec(5, 1), country |-> Str_European_average,
   dcConfig |-> "Ballard", erfPercent |-> Num(10), dcCity |-> DEFAULT_DC_CITY,
   dacMarketPrice |-> Num(200), dacProcurementPrice |-> Num(150),
   waterMarketPrice |-> Dec(45, 1), waterProductionCost |-> Dec(35, 1),
   thermalEnergyPrice |-> Num(75),
   electricityCost |-> DC_LOCATIONS[DEFAULT_DC_CITY].electricityCostPerMWh,
   gridEfKgPerKwh |-> DC_LOCATIONS[DEFAULT_DC_CITY].gridEfKgPerKwh,
   coolingCOP |-> Dec(33, 1), whrCapitalCostPerMW |-> Dec(25, 2),
   ownershipModel |-> "microsoft", tippingFeePerMWh |-> Num(10),
   revenueSharePercent |-> Num(30)]

Init ==
  /\ inp = Defaults
  /\ memo = Render(Defaults, Unmounted)
  /\ nEdits = 0

\* the state update a handler requests
Update(in) == inp' = in

\* the re-render React runs after a handler changed some hook value
\* (a handler that sets every hook to its current value renders nothing)
Rerender ==
  /\ inp' # inp
  /\ memo' = Render(inp', memo)
  /\ nEdits' = nEdits + 1

\* values typed into the number fields / picked on the sliders
ItLoadValues == {Num(-10), Num(0), Num(50), Num(200)}
RecoveryValues == {Num(-5), Num(0), Num(10), Num(100), Num(150)}
HoursValues == {Num(0), Num(4380), Num(8760), Num(17520)}
TempValues == {Num(-5), Num(27), Num(30), Num(40), Num(55), Num(65), Num(100)}
MwhPerHomeValues == {Zero, DEFAULT_MWH_PER_HOME_YEAR, Num(29)}
GpcdValues == {Zero, Num(125), Num(250)}
DistanceValues == {Zero, Dec(5, 1), Num(20)}
CountryValues == {Str_European_average, Str_Germany, Str_Sweden}
ErfValues == {Num(0), Num(10), Num(20)}
CityValues == {"Frankfurt", "Zaragoza", "Newport"}
DacMarketValues == {Num(100), Num(150), Num(200)}
DacProcurementValues == {Num(150), Num(250)}
WaterMarketValues == {Num(3), Dec(45, 1)}
WaterCostValues == {Dec(35, 1), Num(5)}
ThermalPriceValues == {Num(0), Num(75), Num(150)}
ElectricityValues == {Num(40), Num(284)}
CopValues == {Num(2), Dec(33, 1), Num(5)}
WhrCapitalValues == {Dec(1, 1), Dec(25, 2), Num(1)}
OwnershipValues == {"microsoft", "thirdparty", "hybrid"}
TippingValues == {Num(0), Num(10), Num(20)}
ShareValues == {Num(0), Num(30), Num(100)}

\* SliderRow onChange -> setValue(Number(e.target.value)) (lines 318, 327)
SetItLoadMW == \E v \in ItLoadValues : Update([inp EXCEPT !.itLoadMW = v])
SetRecoveryPct == \E v \in RecoveryValues : Update([inp EXCEPT !.recoveryPct = v])
SetHoursPerYear == \E v \in HoursValues : Update([inp EXCEPT !.hoursPerYear = v])

\* return-temperature control passing the entered value on as it is
SetDcReturnTempCUnclamped ==
  \E n \in TempValues : Update([inp EXCEPT !.dcReturnTempC = n])

\* lines 2292, 2414
SetDcReturnTempC ==
  \E n \in TempValues :
    Update([inp EXCEPT !.dcReturnTempC = MathMax(Num(0), MathMin(n, Num(79)))])
\* rendered only for district heat (lines 2300-2312)
SetMwhPerHomeYear ==
  /\ inp.offtake = "districtHeat"
  /\ \E v \in MwhPerHomeValues : Update([inp EXCEPT !.mwhPerHomeYear = v])
\* the water panel is rendered only for the two water offtakes (line 2766)
SetPhxGpcd ==
  /\ inp.offtake \in {"waterTreatmentFO", "atmosphericWater"}
  /\ \E v \in GpcdValues : Update([inp EXCEPT !.phxGpcd = v])
SetIntakeDistanceKm == \E v \in DistanceValues : Update([inp EXCEPT !.intakeDistanceKm = v])
SetCountry == \E v \in CountryValues : Update([inp EXCEPT !.country = v])
SetErfPercent == \E v \in ErfValues : Update([inp EXCEPT !.erfPercent = v])
\* the carbon-credit panel is rendered only for DAC (line 2722)
SetDacMarketPrice ==
  /\ inp.offtake = "dac"
  /\ \E v \in DacMarketValues : Update([inp EXCEPT !.dacMarketPrice = v])
SetDacProcurementPrice ==
  /\ inp.offtake = "dac"
  /\ \E v \in DacProcurementValues : Update([inp EXCEPT !.dacProcurementPrice = v])
SetWaterMarketPrice ==
  /\ inp.offtake \in {"waterTreatmentFO", "atmosphericWater"}
  /\ \E v \in WaterMarketValues : Update([inp EXCEPT !.waterMarketPrice = v])
SetWaterProductionCost ==
  /\ inp.offtake \in {"waterTreatmentFO", "atmosphericWater"}
  /\ \E v \in WaterCostValues : Update([inp EXCEPT !.waterProductionCost = v])
\* one price slider in each thermal panel (lines 2824, 2870, 2900)
SetThermalEnergyPrice ==
  /\ inp.offtake \in {"greenhouses", "districtHeat", "hotWater", "foodBrewery"}
  /\ \E v \in ThermalPriceValues : Update([inp EXCEPT !.thermalEnergyPrice = v])
SetElectricityCost == \E v \in ElectricityValues : Update([inp EXCEPT !.electricityCost = v])
SetCoolingCOP == \E v \in CopValues : Update([inp EXCEPT !.coolingCOP = v])
SetWhrCapitalCostPerMW ==
  \E v \in WhrCapitalValues : Update([inp EXCEPT !.whrCapitalCostPerMW = v])
\* rendered only while Model B is selected (line 2968)
SetTippingFeePerMWh ==
  /\ inp.ownershipModel = "thirdparty"
  /\ \E v \in TippingValues : Update([inp EXCEPT !.tippingFeePerMWh = v])
\* rendered only while Model C is selected (line 2982)
SetRevenueSharePercent ==
  /\ inp.ownershipModel = "hybrid"
  /\ \E v \in ShareValues : Update([inp EXCEPT !.revenueSharePercent = v])
SetOfftake == \E v \in Offtake : Update([inp EXCEPT !.offtake = v])
SetOwnershipModel == \E v \in OwnershipValues : Update([inp EXCEPT !.ownershipModel = v])

\* DC location select (lines 2251-2259)
SelectDcCity ==
  \E newCity \in CityValues :
    LET loc == DC_LOCATIONS[newCity]
    IN  Update([inp EXCEPT !.dcCity = newCity,
                           !.electricityCost = loc.electricityCostPerMWh,
                           !.gridEfKgPerKwh = loc.gridEfKgPerKwh])

\* DC facility select that leaves the electricity cost alone
SelectDcConfigKeepCost ==
  \E k \in FacilityKeys : Update([inp EXCEPT !.dcConfig = k])

\* DC facility select (lines 2342-2346)
SelectDcConfig ==
  \E k \in FacilityKeys :
    Update([inp EXCEPT !.dcConfig = k,
                       !.electricityCost = FACILITIES[k].electricityCostPerMWh])

\* the input handlers of the page
Handler ==
  \/ SetItLoadMW \/ SetRecoveryPct \/ SetHoursPerYear \/ SetDcReturnTempC
  \/ SetMwhPerHomeYear \/ SetPhxGpcd \/ SetIntakeDistanceKm \/ SetCountry
  \/ SetErfPercent \/ SetDacMarketPrice \/ SetDacProcurementPrice
  \/ SetWaterMarketPrice \/ SetWaterProductionCost \/ SetThermalEnergyPrice
  \/ SetElectricityCost \/ SetCoolingCOP \/ SetWhrCapitalCostPerMW
  \/ SetTippingFeePerMWh \/ SetRevenueSharePercent \/ SetOfftake
  \/ SetOwnershipModel \/ SelectDcCity \/ SelectDcConfig

\* one handler and the re-render it causes
Next == nEdits < MaxEdits /\ Handler /\ Rerender

Spec == Init /\ [][Next]_vars

\* ------------------------------------------------------------------------
\* The DC savings panel over the whole range of its three controls, on a
\* small facility load: the inputs of dcSavings are drawn in the initial
\* state and then moved by the panel's own handlers.
\* ------------------------------------------------------------------------
DcItLoadValues == {Num(0), Num(1)}
\* ERF slider: min 0, max 100, step 5 (line 2438)
DcErfValues == {Num(0), Num(5), Num(50), Num(100)}
\* return temperatures the setter lets through (lines 2292, 2414)
DcTempValues == {Num(0), Num(10), Num(25), Num(40), Num(79)}

InitDc ==
  /\ inp \in { [Defaults EXCEPT !.itLoadMW = l, !.dcConfig = k,
                                !.electricityCost = FACILITIES[k].electricityCostPerMWh,
                                !.erfPercent = e, !.dcReturnTempC = t]
               : l \in DcItLoadValues, k \in FacilityKeys,
                 e \in DcErfValues, t \in DcTempValues }
  /\ memo = Render(inp, Unmounted)
  /\ nEdits = 0

SetErfPercentDc == \E v \in DcErfValues : Update([inp EXCEPT !.erfPercent = v])
SetDcReturnTempCDc ==
  \E n \in DcTempValues :
    Update([inp EXCEPT !.dcReturnTempC = MathMax(Num(0), MathMin(n, Num(79)))])

HandlerDc == SetErfPercentDc \/ SetDcReturnTempCDc \/ SelectDcConfig

NextDc == nEdits < MaxEdits /\ HandlerDc /\ Rerender

SpecDc == InitDc /\ [][NextDc]_vars

\* ------------------------------------------------------------------------
\* The memoised values of the current render
\* ------------------------------------------------------------------------
core == memo.core.val
perf == memo.perf.val
outputs == memo.outputs.val
potentialCO2 == memo.potentialCO2.val
offtakeCosts == memo.offtakeCosts.val
dcSavings == memo.dcSavings.val
normalized == memo.normalized.val
co2Table == memo.co2Bars.val
ownershipComparison == memo.ownershipComparison.val

ModelKeys == {"modelA", "modelB", "modelC"}
NetBenefit(m) == Sub(m.annualRevenue, m.annualOpex)

\* ------------------------------------------------------------------------
\* C1: payback of Models A, B, C is reported as undefined ("no payback")
\* whenever annualRevenue - annualOpex <= 0, and the reported payback is
\* never a negative, infinite or NaN number.
\* ------------------------------------------------------------------------
C1_PaybackUndefinedWhenNoNetBenefit ==
  \A k \in ModelKeys :
    LET m == ownershipComparison[k]
        row == PaybackRow(m)
    IN  /\ ~Greater(NetBenefit(m), Zero) => row.text = "no payback"
        /\ row.text \in {"digits", "no payback"}
        /\ ~row.neg

\* ------------------------------------------------------------------------
\* C2: for itLoadMW >= 0 and any recoveryPct, recoverableHeatMW =
\* itLoadMW * clamp(recoveryPct,0,100)/100 is a number in [0, itLoadMW],
\* 0 for recoveryPct <= 0 and itLoadMW for recoveryPct >= 100.
\* ------------------------------------------------------------------------
C2_RecoverableHeatClamped ==
  Geq(inp.itLoadMW, Zero) =>
    LET r == core.recoverableHeatMW
        pct == IF Less(inp.recoveryPct, Zero) THEN Zero
               ELSE IF Greater(inp.recoveryPct, Num(100)) THEN Num(100)
               ELSE inp.recoveryPct
    IN  /\ IsFinite(r)
        /\ Geq(r, Zero) /\ Leq(r, inp.itLoadMW)
        /\ Leq(inp.recoveryPct, Zero) => r = Zero
        /\ Geq(inp.recoveryPct, Num(100)) => r = inp.itLoadMW
        /\ r = Div(Mul(inp.itLoadMW, pct), Num(100))

C2_Witness ==
  /\ inp.recoveryPct = Num(150)
  /\ Greater(inp.itLoadMW, Zero)
  /\ core.recoverableHeatMW = inp.itLoadMW

\* ------------------------------------------------------------------------
\* C3: the Thermal Core clamps every input: for any entered itLoadMW and
\* hoursPerYear, recoverableHeatMW >= 0 and
\* 0 <= annualHeatMWh <= recoverableHeatMW * 8760.
\* ------------------------------------------------------------------------
C3_AllInputsClamped ==
  /\ Geq(core.recoverableHeatMW, Zero)
  /\ Geq(core.annualHeatMWh, Zero)
  /\ Leq(core.annualHeatMWh, Mul(core.recoverableHeatMW, Num(8760)))

\* ------------------------------------------------------------------------
\* C4: after any sequence of input changes every memoised derived value
\* equals the from-scratch evaluation of the pipeline on the current inputs.
\* ------------------------------------------------------------------------
C4_MemoEqualsFresh ==
  LET f == Fresh(inp)
  IN  \A c \in DOMAIN memo : memo[c].val = f[c].val

\* two edits that left the core cell cached while others were recomputed
C4_Witness ==
  /\ nEdits >= 2
  /\ memo.core.deps = coreDeps(Defaults)
  /\ inp.ownershipModel = "thirdparty"
  /\ inp.tippingFeePerMWh # Defaults.tippingFeePerMWh

\* ------------------------------------------------------------------------
\* C5: with itLoadMW = 0 every downstream output is exactly 0: water
\* volumes, DAC tCO2 and water, homes, hectares, people served, the
\* potential CO2 of the selected offtake (where one is produced),
\* operational savings, offtake revenue and each model's annualRevenue.
\* ------------------------------------------------------------------------
C5_ZeroLoadZeroOutputs ==
  inp.itLoadMW = Zero =>
    /\ \A f \in DOMAIN outputs : outputs[f] = Zero
    /\ potentialCO2.kind = "dac" => potentialCO2.tco2 = Zero
    /\ potentialCO2.kind = "range" =>
         /\ potentialCO2.minKt = Zero
         /\ potentialCO2.midKt = Zero
         /\ potentialCO2.maxKt = Zero
    /\ dcSavings.annualOperationalSavings = Zero
    /\ ownershipComparison.offtakeRevenue = Zero
    /\ \A k \in ModelKeys : ownershipComparison[k].annualRevenue = Zero

C5_Witness ==
  /\ inp.itLoadMW = Zero
  /\ inp.offtake = "districtHeat"
  /\ outputs.homesHeated = Zero
  /\ ownershipComparison.modelA.annualRevenue = Zero

\* ------------------------------------------------------------------------
\* C6: each performance factor lies in its [v0, v1], equals v0 at or below
\* t0 and v1 at or above t1, and does not decrease when the return
\* temperature rises (AWH 30-55 0.75-1, FO 30-45 0.85-1, DAC 30-65 0.5-1,
\* greenhouse 30-60 0.9-1).
\* ------------------------------------------------------------------------
RampTuples ==
  [uravuFactor |-> <<Num(30), Num(55), Dec(75, 2), Num(1)>>,
   treviFactor |-> <<Num(30), Num(45), Dec(85, 2), Num(1)>>,
   dacFactor |-> <<Num(30), Num(65), Dec(5, 1), Num(1)>>,
   greenhouseFactor |-> <<Num(30), Num(60), Dec(9, 1), Num(1)>>]

FactorInRamp(f) ==
  LET t == RampTuples[f]
      v == perf[f]
  IN  /\ Geq(v, t[3]) /\ Leq(v, t[4])
      /\ Leq(inp.dcReturnTempC, t[1]) => v = t[3]
      /\ Geq(inp.dcReturnTempC, t[2]) => v = t[4]

C6_RampBoundedMonotone ==
  /\ [](\A f \in DOMAIN RampTuples : FactorInRamp(f))
  /\ [][Leq(inp.dcReturnTempC, inp'.dcReturnTempC) =>
          \A f \in DOMAIN RampTuples : Leq(perf[f], perf'[f])]_vars

C6_Witness ==
  /\ inp.dcReturnTempC = Num(40)
  /\ Greater(perf.dacFactor, Dec(5, 1))
  /\ Less(perf.dacFactor, Num(1))
  /\ Greater(perf.uravuFactor, Dec(75, 2))

\* ------------------------------------------------------------------------
\* C7: for each ownership model, with capex > 0 and opex unchanged, a
\* change that only raises annualRevenue (net benefit positive before and
\* after) strictly lowers paybackYears.
\* ------------------------------------------------------------------------
C7_PaybackDecreasingInRevenue ==
  [][\A k \in ModelKeys :
       LET m == ownershipComparison[k]
           n == ownershipComparison'[k]
       IN  ( /\ n.totalCapex = m.totalCapex
             /\ Greater(m.totalCapex, Zero)
             /\ n.annualOpex = m.annualOpex
             /\ Greater(NetBenefit(m), Zero)
             /\ Greater(NetBenefit(n), Zero)
             /\ Greater(n.annualRevenue, m.annualRevenue) )
           => Less(n.paybackYears, m.paybackYears)]_vars

\* the default scenario with Model B selected and the tipping fee raised
C7_Witness ==
  /\ nEdits = 2
  /\ inp = [Defaults EXCEPT !.ownershipModel = "thirdparty",
                            !.tippingFeePerMWh = Num(20)]
  /\ Less(ownershipComparison.modelB.paybackYears,
          Fresh(Defaults).ownershipComparison.val.modelB.paybackYears)

EreAt(k) == dcSavingsOf([inp EXCEPT !.dcConfig = k], core).ere

EreFormula ==
  LET erf == Div(inp.erfPercent, Num(100))
  IN  /\ Greater(erf, Zero) =>
           dcSavings.ere = Mul(baseEreOf(FACILITIES[inp.dcConfig].coolingType), erf)
      /\ erf = Zero => dcSavings.ere = Null

C10_EreOrderEvaporativeFirst ==
  /\ EreFormula
  /\ Greater(inp.erfPercent, Zero) =>
       /\ Greater(EreAt("Ballard"), EreAt("Osgood"))
       /\ Greater(EreAt("Osgood"), EreAt("FremontFairwater"))

\* C10 as amended: the same ere formula, with the lookup ordered
\* hybrid > evaporative > air-cooled: baseEre(Osgood) 0.82 >
\* baseEre(Ballard) 0.78 > baseEre(Fremont/Fairwater) 0.75.
C10_EreOrderHybridFirst ==
  /\ EreFormula
  /\ Greater(inp.erfPercent, Zero) =>
       /\ Greater(EreAt("Osgood"), EreAt("Ballard"))
       /\ Greater(EreAt("Ballard"), EreAt("FremontFairwater"))
       /\ EreAt("Osgood") = Mul(Dec(82, 2), dcSavings.erf)
       /\ EreAt("Ballard") = Mul(Dec(78, 2), dcSavings.erf)
       /\ EreAt("FremontFairwater") = Mul(Dec(75, 2), dcSavings.erf)

C10_Witness ==
  /\ inp.dcConfig = "Osgood"
  /\ inp.erfPercent = Num(20)
  /\ dcSavings.ere = Mul(Dec(82, 2), Dec(2, 1))

\* ------------------------------------------------------------------------
\* C11: pueMaxImprovement is a ceiling: for every facility, every ERF in
\* [0,100]% and every return temperature in [0,79], the PUE reduction
\* (pueBaseline - pueWithHR) / pueBaseline is at least 0 and at most the
\* facility's pueMaxImprovement, and the WUE reduction is at least 0 and
\* at most 15%.
\* ------------------------------------------------------------------------
C11_ReductionWithinCeiling ==
  LET f == FACILITIES[inp.dcConfig]
      pue == Div(Sub(dcSavings.pueBaseline, dcSavings.pueWithHR), dcSavings.pueBaseline)
      wue == Div(Sub(dcSavings.wueBaseline, dcSavings.wueWithHR), dcSavings.wueBaseline)
  IN  /\ Geq(pue, Zero) /\ Leq(pue, f.pueMaxImprovement)
      /\ Greater(f.wueBaseline, Zero) => Geq(wue, Zero) /\ Leq(wue, Dec(15, 2))

\* ------------------------------------------------------------------------
\* C12: at ERF = 0 heat recovery changes nothing: pueWithHR = pueBaseline
\* and wueWithHR = wueBaseline.  For ERF > 0, pueWithHR = pueBaseline x
\* (1 - pueMaxImprovement x erf x tempAdjustmentFactor) and, where
\* wueBaseline > 0, wueWithHR = wueBaseline x (1 - 0.15 x erf x
\* tempAdjustmentFactor), with tempAdjustmentFactor =
\* max(0.85, 1 - (dcReturnTempC - 25) / 100).
\* ------------------------------------------------------------------------
C12_IdentityAtZeroErfElseFormula ==
  LET f == FACILITIES[inp.dcConfig]
      erf == Div(inp.erfPercent, Num(100))
      linear == Sub(Num(1), Div(Sub(inp.dcReturnTempC, Num(25)), Num(100)))
      taf == IF Less(linear, Dec(85, 2)) THEN Dec(85, 2) ELSE linear
      scaled(base, pct) == Sub(base, Mul(base, Mul(pct, Mul(erf, taf))))
  IN  /\ inp.erfPercent = Zero =>
           /\ dcSavings.pueWithHR = f.pueBaseline
           /\ dcSavings.wueWithHR = f.wueBaseline
      /\ Greater(inp.erfPercent, Zero) =>
           /\ dcSavings.pueWithHR = scaled(f.pueBaseline, f.pueMaxImprovement)
           /\ Greater(f.wueBaseline, Zero) =>
                dcSavings.wueWithHR = scaled(f.wueBaseline, Dec(15, 2))

\* both branches occur: a facility at ERF 0, and a water-cooled facility at
\* a positive ERF with a return temperature on either side of the 0.85 floor
C12_Witness ==
  /\ Greater(inp.erfPercent, Zero)
  /\ Greater(FACILITIES[inp.dcConfig].wueBaseline, Zero)
  /\ inp.dcReturnTempC = Num(79)
  /\ Less(dcSavings.pueWithHR, dcSavings.pueBaseline)
  /\ Less(dcSavings.wueWithHR, dcSavings.wueBaseline)

\* ------------------------------------------------------------------------
\* C13: for a dry-cooled facility (wueBaseline = 0: Fremont/Fairwater)
\* wueWithHR is 0 and wueReduction is undefined (null), for every ERF and
\* every return temperature.
\* ------------------------------------------------------------------------
C13_DryCooledNoWue ==
  FACILITIES[inp.dcConfig].wueBaseline = Zero =>
    /\ dcSavings.wueWithHR = Zero
    /\ dcSavings.wueReduction = Null

\* the dry-cooled facility at full ERF and a cold return, where the
\* water-cooled facilities show their largest WUE reduction
C13_Witness ==
  /\ inp.dcConfig = "FremontFairwater"
  /\ FACILITIES[inp.dcConfig].wueBaseline = Zero
  /\ inp.erfPercent = Num(100)
  /\ inp.dcReturnTempC = Zero
  /\ dcSavings.wueReduction = Null
  /\ Greater(dcSavings.pueReduction, Zero)

\* ------------------------------------------------------------------------
\* C14: the region lookup of the piping cost selects a row whose location
\* name matches the region by case-insensitive substring; if no row matches
\* it selects the "european average" row; if there is none either it
\* selects no row and the subsidy is 0.  A row with an empty or missing
\* location name is never selected as a match.
\* ------------------------------------------------------------------------
C14_RegionRowSelection ==
  LET key == toLowerCase(inp.country)
      row == offtakeCosts.sourceRow
      named == {i \in 1..Len(RAW_ROWS) : rowLoc(RAW_ROWS[i]) # Str_empty}
      matches == {i \in named : \/ includes(rowLoc(RAW_ROWS[i]), key)
                                \/ includes(key, rowLoc(RAW_ROWS[i]))}
      dflt == {i \in named : includes(rowLoc(RAW_ROWS[i]), Str_european_average)}
  IN  /\ row # NoRow => rowLoc(row) # Str_empty
      /\ matches # {} => \E i \in matches : row = RAW_ROWS[i]
      /\ matches = {} /\ dflt # {} => \E i \in dflt : row = RAW_ROWS[i]
      /\ matches = {} /\ dflt = {} => row = NoRow

\* ------------------------------------------------------------------------
\* C15: piping capex = (200,000 x (1 - subsidyFraction) + costPerKm x
\* intakeDistanceKm) x recoverableHeatMW with costPerKm = 10,000, piping
\* opex = 0.03 x capex, and the pipingCapex fed into Model A equals this
\* capex for every subsidy fraction in [0,1].
\* ------------------------------------------------------------------------
C15_PipingCost ==
  LET row == offtakeCosts.sourceRow
      subsidyFraction == IF row.EMPTY_9 = Null THEN Zero ELSE row.EMPTY_9
      perMW == Add(Sub(Num(200000), Mul(Num(200000), subsidyFraction)),
                   Mul(Num(10000), inp.intakeDistanceKm))
      capex == Mul(perMW, core.recoverableHeatMW)
  IN  Geq(subsidyFraction, Zero) /\ Leq(subsidyFraction, Num(1)) =>
        /\ offtakeCosts.totalCapex = capex
        /\ offtakeCosts.annualOpex = Mul(Dec(3, 2), capex)
        /\ ownershipComparison.pipingCapex = capex

\* ------------------------------------------------------------------------
\* C16: for a facility of the table, annualOperationalSavings =
\* recoverableHeatMW x erf x hoursPerYear x (1 / coolingCOP) x
\* electricityCost; it is 0 when ERF = 0 or recoverableHeatMW = 0, and it
\* is 0 when the selected facility key is not in the facility table.
\* ------------------------------------------------------------------------
C16_OperationalSavings ==
  LET erf == Div(inp.erfPercent, Num(100))
      perUnit == Div(Mul(inp.hoursPerYear, inp.electricityCost), inp.coolingCOP)
      unlisted == dcSavingsOf([inp EXCEPT !.dcConfig = "unlisted"], core)
  IN  /\ inp.dcConfig \in FacilityKeys =>
           dcSavings.annualOperationalSavings =
             Mul(Mul(core.recoverableHeatMW, erf), perUnit)
      /\ inp.erfPercent = Zero \/ core.recoverableHeatMW = Zero =>
           dcSavings.annualOperationalSavings = Zero
      /\ unlisted.annualOperationalSavings = Zero

\* ------------------------------------------------------------------------
\* C17: offtake revenue is dispatched by the selected offtake kind:
\* dac => dacTco2PerYear x (dacMarketPrice - dacProcurementPrice);
\* waterTreatmentFO => treviM3PerYear x (waterMarketPrice -
\* waterProductionCost); atmosphericWater => uravuM3PerYear x the same
\* margin; districtHeat, greenhouses, hotWater and foodBrewery =>
\* annualHeatMWh x thermalEnergyPrice.  The revenue of the selected kind
\* does not depend on the pricing fields of the other kinds.
\* ------------------------------------------------------------------------
ThermalKinds == {"districtHeat", "greenhouses", "hotWater", "foodBrewery"}
WaterKinds == {"waterTreatmentFO", "atmosphericWater"}

\* the inputs with the pricing fields of the kinds not selected set to 1
OtherPricesReset ==
  [inp EXCEPT
     !.dacMarketPrice = IF inp.offtake = "dac" THEN @ ELSE Num(1),
     !.dacProcurementPrice = IF inp.offtake = "dac" THEN @ ELSE Num(1),
     !.waterMarketPrice = IF inp.offtake \in WaterKinds THEN @ ELSE Num(1),
     !.waterProductionCost = IF inp.offtake \in WaterKinds THEN @ ELSE Num(1),
     !.thermalEnergyPrice = IF inp.offtake \in ThermalKinds THEN @ ELSE Num(1)]

C17_RevenueDispatch ==
  LET revenue == ownershipComparison.offtakeRevenue
      waterMargin == Sub(inp.waterMarketPrice, inp.waterProductionCost)
  IN  /\ inp.offtake = "dac" =>
           revenue = Mul(outputs.dacTco2PerYear,
                         Sub(inp.dacMarketPrice, inp.dacProcurementPrice))
      /\ inp.offtake = "waterTreatmentFO" =>
           revenue = Mul(outputs.treviM3PerYear, waterMargin)
      /\ inp.offtake = "atmosphericWater" =>
           revenue = Mul(outputs.uravuM3PerYear, waterMargin)
      /\ inp.offtake \in ThermalKinds =>
           revenue = Mul(core.annualHeatMWh, inp.thermalEnergyPrice)
      /\ revenue = offtakeRevenueOf(OtherPricesReset, core, outputs)

\* a thermal offtake selected after the DAC price was moved off its
\* default, with a heat figure that is not that of a single MW
C17_Witness ==
  /\ inp.offtake \in ThermalKinds
  /\ inp.dacMarketPrice # Defaults.dacMarketPrice
  /\ core.annualHeatMWh # Num(MWH_PER_MW_YEAR)
  /\ Greater(ownershipComparison.offtakeRevenue, Zero)

\* ------------------------------------------------------------------------
\* C18: the CO2 comparison table has a row for every offtake kind, each
\* row's min/mid/max is the per-MW-year source range scaled by the current
\* recoverableHeatMW (0 when it is 0, double when it doubles), and the DAC
\* row is a constant rather than a range (its min equals its max).
\* ------------------------------------------------------------------------
Co2SourceRanges ==
  << DAC_CO2_KT_RANGE, FO_CO2_KT_RANGE, FNB_CO2_KT_RANGE, AWH_CO2_KT_RANGE,
     GREENHOUSE_CO2_KT_PER_MWYR_RANGE, DISTRICT_HEAT_CO2_KT_RANGE >>

C18_Co2TableScaledRowPerKind ==
  /\ Len(co2Table) = Cardinality(Offtake)
  /\ \A i \in 1..Len(co2Table) :
       /\ co2Table[i].min = Mul(Co2SourceRanges[i].min, core.recoverableHeatMW)
       /\ co2Table[i].max = Mul(Co2SourceRanges[i].max, core.recoverableHeatMW)
  /\ co2Table[1].min = co2Table[1].max

\* ------------------------------------------------------------------------
\* C19: the CO2 comparison table is independent of the selected offtake:
\* changing the selected offtake or the selected ownership model leaves
\* every row of co2Bars unchanged, and in every row mid = (min + max) / 2
\* with min <= mid <= max.
\* ------------------------------------------------------------------------
C19_Co2TableFrame ==
  [][ /\ (inp'.offtake # inp.offtake \/ inp'.ownershipModel # inp.ownershipModel)
           => memo'.co2Bars.val = memo.co2Bars.val
      /\ \A i \in 1..Len(memo'.co2Bars.val) :
           LET row == memo'.co2Bars.val[i]
           IN  /\ Mul(row.best, Num(2)) = Add(row.min, row.max)
               /\ Leq(row.min, row.best) /\ Leq(row.best, row.max) ]_vars

\* the table after the offtake and then the ownership model were changed
C19_Witness ==
  /\ nEdits = 2
  /\ inp.offtake # Defaults.offtake
  /\ inp.ownershipModel # Defaults.ownershipModel
  /\ Len(co2Table) = 6
  /\ co2Table[1].best = Dec(45, 1)

\* ------------------------------------------------------------------------
\* C20: every normalized per-MW-year output (treviM3_per_MWyr,
\* uravuM3_per_MWyr, dacTco2_per_MWyr, dacWaterM3_per_MWyr, homes_per_MWyr,
\* greenhouseHa_per_MWyr and the three people-per-MW-year values) is
\* invariant under any change of itLoadMW with the other inputs held fixed.
\* ------------------------------------------------------------------------
C20_NormalizedInvariantUnderLoad ==
  [][ (inp'.itLoadMW # inp.itLoadMW /\ inp' = [inp EXCEPT !.itLoadMW = inp'.itLoadMW])
        => /\ memo'.normalized.val = memo.normalized.val
           /\ normalizedOf(inp', memo'.perf.val, memo'.phx.val) = memo.normalized.val
    ]_vars

\* the IT load moved off its default with every other input untouched
C20_Witness ==
  /\ nEdits = 1
  /\ inp = [Defaults EXCEPT !.itLoadMW = Num(50)]
  /\ Greater(normalized.homes_per_MWyr, Zero)
  /\ Greater(normalized.dacTco2_per_MWyr, Zero)
  /\ Greater(normalized.phxPeoplePerMWyr_trevi, Zero)

\* ------------------------------------------------------------------------
\* C21 (as stated): when the per-capita annual water use (gpcd x
\* gallon-to-m3 x 365) is <= 0, each people-served equivalent (FO, AWH,
\* DAC; per year and per MW-year) is reported as undefined, and none of
\* them is ever NaN or infinite.
\* ------------------------------------------------------------------------
PeopleServed ==
  { outputs.treviPeoplePerYear, outputs.uravuPeoplePerYear, outputs.dacPeoplePerYear,
    normalized.phxPeoplePerMWyr_trevi, normalized.phxPeoplePerMWyr_uravu,
    normalized.phxPeoplePerMWyr_dac }

C21_PeopleServedUndefined ==
  /\ \A v \in PeopleServed : v = Null \/ IsFinite(v)
  /\ ~Greater(memo.phx.val, Zero) => \A v \in PeopleServed : v = Null

\* ------------------------------------------------------------------------
\* C21 (amended): when the per-capita annual water use is <= 0, each
\* people-served equivalent is reported as 0, and none of them is ever
\* NaN or infinite.
\* ------------------------------------------------------------------------
C21_PeopleServedZero ==
  /\ \A v \in PeopleServed : IsFinite(v)
  /\ ~Greater(memo.phx.val, Zero) => \A v \in PeopleServed : v = Zero

\* a water offtake with the per-capita use set to 0 while water is produced
C21_Witness ==
  /\ inp.phxGpcd = Zero
  /\ memo.phx.val = Zero
  /\ Greater(outputs.treviM3PerYear, Zero)
  /\ Greater(outputs.dacWaterM3PerYear, Zero)
  /\ outputs.treviPeoplePerYear = Zero

\* ------------------------------------------------------------------------
\* C22: for itLoadMW = 50, recoveryPct = 10, hoursPerYear = 8760, offtake =
\* dac and dcReturnTempC = 65: recoverableHeatMW = 5, effectiveMWyr = 5,
\* the DAC performance factor is 1.0 and dacTco2PerYear = 22750.
\* ------------------------------------------------------------------------
Scenario22 ==
  /\ inp.itLoadMW = Num(50) /\ inp.recoveryPct = Num(10)
  /\ inp.hoursPerYear = Num(8760) /\ inp.offtake = "dac"
  /\ inp.dcReturnTempC = Num(65)

C23_AnnualHeatLinear ==
  [][ /\ memo'.core.val.annualHeatMWh =
           Mul(memo'.core.val.recoverableHeatMW, inp'.hoursPerYear)
      /\ Mul(memo'.core.val.effectiveMWyr, Num(8760)) =
           Mul(memo'.core.val.recoverableHeatMW, inp'.hoursPerYear)
      /\ memo'.core.val.annualHeatMWh = Mul(Num(8760), memo'.core.val.effectiveMWyr)
      /\ (/\ inp'.hoursPerYear = Mul(Num(2), inp.hoursPerYear)
          /\ memo'.core.val.recoverableHeatMW = memo.core.val.recoverableHeatMW)
           => memo'.core.val.annualHeatMWh = Mul(Num(2), memo.core.val.annualHeatMWh)
    ]_vars

\* the hours doubled from the default 8760 with heat to recover
C23_Witness ==
  /\ inp.hoursPerYear = Num(17520)
  /\ core.recoverableHeatMW = Num(20)
  /\ core.annualHeatMWh = Num(350400)
  /\ core.effectiveMWyr = Num(40)

\* ------------------------------------------------------------------------
\* C24: deltaT = max(1, dcReturnTempC - dcSupplyTempC) is >= 1 for every
\* return temperature, with dcSupplyTempC derived as dcReturnTempC - 12.
\* ------------------------------------------------------------------------
C24_DeltaTFloored ==
  LET supply == Sub(inp.dcReturnTempC, Num(12))
      diff == Sub(inp.dcReturnTempC, supply)
  IN  /\ Geq(core.dcDeltaT, Num(1))
      /\ core.dcDeltaT = IF Less(diff, Num(1)) THEN Num(1) ELSE diff

\* the coldest return temperature the page accepts, where the derived
\* supply temperature is below zero
C24_Witness ==
  /\ inp.dcReturnTempC = Zero
  /\ Less(dcSupplyTempC(inp), Zero)
  /\ Greater(core.dcDeltaT, Num(1))

HoursScaled(m) ==
  << m.core.val.annualHeatMWh, m.dcSavings.val.annualOperationalSavings,
     m.outputs.val.treviM3PerYear, m.outputs.val.uravuM3PerYear,
     m.outputs.val.homesHeated, m.outputs.val.greenhouseHa,
     m.outputs.val.dacTco2PerYear >>

C26_HoursProportional ==
  [][ (/\ inp'.hoursPerYear # inp.hoursPerYear
       /\ inp' = [inp EXCEPT !.hoursPerYear = inp'.hoursPerYear])
        => \A i \in 1..Len(HoursScaled(memo)) :
             Mul(HoursScaled(memo')[i], inp.hoursPerYear) =
               Mul(HoursScaled(memo)[i], inp'.hoursPerYear)
    ]_vars

\* ------------------------------------------------------------------------
\* C27: the annual operational savings shown as the result of the formula
\* "Heat_MW x Hours/Yr x (1 / Cooling_COP) x Electricity_Cost" equal the
\* product of exactly those four factors, for every ERF setting.
\* ------------------------------------------------------------------------
C27_SavingsEqualFourFactorProduct ==
  dcSavings.annualOperationalSavings =
    Mul(Mul(Mul(core.recoverableHeatMW, inp.hoursPerYear),
            Div(Num(1), inp.coolingCOP)),
        inp.electricityCost)

\* ------------------------------------------------------------------------
\* C28: warmer return temperatures improve efficiency gains: for a fixed
\* facility and a fixed ERF > 0, the PUE reduction (and the WUE reduction
\* of a water-cooled facility) does not decrease when dcReturnTempC rises
\* within 0-79 C.
\* ------------------------------------------------------------------------
C28_ReductionNonDecreasingInTemp ==
  [][ (/\ Greater(inp'.dcReturnTempC, inp.dcReturnTempC)
       /\ inp' = [inp EXCEPT !.dcReturnTempC = inp'.dcReturnTempC]
       /\ Greater(inp.erfPercent, Zero))
        => /\ Geq(memo'.dcSavings.val.pueReduction, memo.dcSavings.val.pueReduction)
           /\ memo.dcSavings.val.wueReduction # Null =>
                Geq(memo'.dcSavings.val.wueReduction, memo.dcSavings.val.wueReduction)
    ]_vars

\* ------------------------------------------------------------------------
\* C29: electricityCost is whatever the most recent of its three writers
\* wrote: a step that changes it is a DC-location selection (the location's
\* cost, together with the location's gridEfKgPerKwh), a facility selection
\* (the facility's cost, dcCity and gridEfKgPerKwh untouched) or an edit of
\* the electricity-cost control (its value, nothing else touched); a changed
\* dcCity or dcConfig always brings its own cost; and the operational
\* savings rendered after the step are computed with that electricityCost.
\* The cost need not be that of the selected location or facility: the page
\* starts at facility Ballard with Frankfurt's cost.
\* ------------------------------------------------------------------------
C29_ElectricityCostLastWriter ==
  [][ LET cost == inp'.electricityCost
          byLocation ==
            /\ inp'.dcCity \in DOMAIN DC_LOCATIONS
            /\ inp' = [inp EXCEPT
                 !.dcCity = inp'.dcCity,
                 !.electricityCost = DC_LOCATIONS[inp'.dcCity].electricityCostPerMWh,
                 !.gridEfKgPerKwh = DC_LOCATIONS[inp'.dcCity].gridEfKgPerKwh]
          byFacility ==
            /\ inp'.dcConfig \in FacilityKeys
            /\ inp' = [inp EXCEPT
                 !.dcConfig = inp'.dcConfig,
                 !.electricityCost = FACILITIES[inp'.dcConfig].electricityCostPerMWh]
          bySlider == inp' = [inp EXCEPT !.electricityCost = cost]
          rec == memo'.core.val.recoverableHeatMW
          erf == Div(inp'.erfPercent, Num(100))
      IN  /\ inp'.dcCity # inp.dcCity => byLocation
          /\ inp'.dcConfig # inp.dcConfig => byFacility
          /\ cost # inp.electricityCost => byLocation \/ byFacility \/ bySlider
          /\ inp'.gridEfKgPerKwh # inp.gridEfKgPerKwh => byLocation
          /\ Greater(rec, Zero) =>
               memo'.dcSavings.val.annualOperationalSavings =
                 Mul(Div(Mul(Mul(rec, erf), inp'.hoursPerYear), inp'.coolingCOP), cost)
          /\ nEdits = 0 =>
               /\ inp.electricityCost = DC_LOCATIONS["Frankfurt"].electricityCostPerMWh
               /\ inp.electricityCost # FACILITIES[inp.dcConfig].electricityCostPerMWh
    ]_vars

\* a facility was selected and the cost control moved afterwards: the cost
\* in use is neither the location's nor the facility's
C29_Witness ==
  /\ nEdits = 2
  /\ inp.dcConfig = "Osgood"
  /\ inp.dcCity = "Frankfurt"
  /\ inp.electricityCost = Num(40)
  /\ inp.electricityCost # FACILITIES[inp.dcConfig].electricityCostPerMWh
  /\ inp.electricityCost # DC_LOCATIONS[inp.dcCity].electricityCostPerMWh
  /\ dcSavings.annualOperationalSavings =
       Mul(Div(Mul(Mul(core.recoverableHeatMW, Div(inp.erfPercent, Num(100))),
                   inp.hoursPerYear), inp.coolingCOP), Num(40))

\* ------------------------------------------------------------------------
\* C30: whatever is entered through the return-temperature slider or number
\* field, dcReturnTempC stays within [0, 79]; hence the food/brewery
\* suitability row never shows the branch for 80 C and above ("More direct
\* use"), and deltaT is always 12.
\* ------------------------------------------------------------------------
C30_ReturnTempWithinRange ==
  /\ Geq(inp.dcReturnTempC, Num(0))
  /\ Leq(inp.dcReturnTempC, Num(79))
  /\ processSuitabilityOf(inp.dcReturnTempC) = "Many steps need lift"
  /\ core.dcDeltaT = Num(12)

\* the food/brewery panel is open and 100 was entered: the setter kept 79
C30_Witness ==
  /\ inp.offtake = "foodBrewery"
  /\ nEdits = 2
  /\ inp.dcReturnTempC = Num(79)
  /\ processSuitabilityOf(inp.dcReturnTempC) = "Many steps need lift"
  /\ core.dcDeltaT = Num(12)

====
